---------------------------- MODULE Spec2Model ----------------------------
(***************************************************************************)
(* Model of the regime-allocation strategy: RegimeDetector                 *)
(* (src/src/regime_detector.py) and StrategyBacktester                     *)
(* (src/src/backtester.py).                                                *)
(*                                                                         *)
(* Numbers.  A real number is an exact fraction <<n, d>> with d > 0.  The   *)
(* pair <<0, 0>> is NaN and <<1, 0>>, <<-1, 0>> are +inf and -inf (what     *)
(* numpy gives for x / 0).  Floating-point rounding is not modelled.        *)
(* Quantities that are irrational in general (an annualised return, a      *)
(* volatility) are kept in an exact form from which sign and zero-ness are  *)
(* decided: a power as its base and exponent, a standard deviation as its   *)
(* square.                                                                 *)
(***************************************************************************)
EXTENDS Integers, Sequences, FiniteSets, TLC

VARIABLES
    n_regimes,        \* RegimeDetector.n_regimes
    scaler,           \* RegimeDetector.scaler (StandardScaler state)
    model,            \* RegimeDetector.model
    vix_changes,      \* the observation series handed to the last detector call
    states,           \* the state sequence (predict's result / backtester.states)
    stats,            \* get_regime_stats' result on that series and sequence
    returns,          \* StrategyBacktester.returns (the instrument table)
    regime_perf,      \* calculate_regime_performance's result
    rules,            \* the allocation rule map handed to backtest_strategy
    lag_days,         \* backtest_strategy's lag_days argument
    strategy_returns, \* backtest_strategy's result
    ret_series,       \* calculate_metrics' argument
    metrics,          \* calculate_metrics' locals and returned dict
    outcome,          \* the last operation and how it ended
    fit_succeeded     \* history: some call of fit has returned normally

vars == <<n_regimes, scaler, model, vix_changes, states, stats, returns,
          regime_perf, rules, lag_days, strategy_returns, ret_series,
          metrics, outcome, fit_succeeded>>

detectorVars == <<n_regimes, scaler, model, vix_changes, stats, fit_succeeded>>
backtestVars == <<returns, regime_perf, rules, lag_days, strategy_returns>>
metricsVars  == <<ret_series, metrics>>

-----------------------------------------------------------------------------
(* Bounds *)

\* Longest return series handed to calculate_metrics.
MaxLen == 4
\* A daily return is r / MaxRet for an integer r in -MaxRet .. MaxRet, so
\* that -MaxRet is a return of -100% and MaxRet one of +100%.
MaxRet == 2
\* Longest observation series handed to get_regime_stats.
MaxObs == 4
\* A daily VIX change is an integer in 0 .. MaxVix.
MaxVix == 1
\* Longest observation series a detector is fitted to or queried with.
MaxSeries == 2
\* Most trading days in a backtest.
MaxDays == 3
\* Largest execution lag handed to backtest_strategy.
MaxLag == 2
\* Most instrument returns missing (NaN) from the returns table.
MaxMissing == 1

-----------------------------------------------------------------------------
(* Exact arithmetic *)

NaN == <<0, 0>>
PosInf == <<1, 0>>
NegInf == <<-1, 0>>
Zero == <<0, 1>>

IsNaN(x) == x[2] = 0 /\ x[1] = 0
IsFinite(x) == x[2] > 0

\* Comparisons as IEEE does them: every comparison with NaN is false.
RatLT(a, b) == IsFinite(a) /\ IsFinite(b) /\ a[1] * b[2] < b[1] * a[2]
RatLE(a, b) == IsFinite(a) /\ IsFinite(b) /\ a[1] * b[2] <= b[1] * a[2]
RatEQ(a, b) == IsFinite(a) /\ IsFinite(b) /\ a[1] * b[2] = b[1] * a[2]
RatGT0(a) == (IsFinite(a) /\ a[1] > 0) \/ a = PosInf

RECURSIVE Gcd(_, _)
Gcd(a, b) == IF b = 0 THEN a ELSE Gcd(b, a % b)
Abs(n) == IF n < 0 THEN -n ELSE n

\* The fraction n / d (d > 0) in lowest terms.
Frac(n, d) == LET g == Gcd(Abs(n), d) IN <<n \div g, d \div g>>

\* a / b for finite or NaN operands, as numpy float64 divides.
RatDiv(a, b) ==
    IF IsNaN(a) \/ IsNaN(b) THEN NaN
    ELSE IF b[1] = 0 THEN (IF a[1] = 0 THEN NaN
                           ELSE IF a[1] > 0 THEN PosInf ELSE NegInf)
    ELSE IF b[1] > 0 THEN Frac(a[1] * b[2], a[2] * b[1])
    ELSE Frac(-(a[1] * b[2]), -(a[2] * b[1]))

RECURSIVE IntPow(_, _)
IntPow(b, e) == IF e = 0 THEN 1 ELSE b * IntPow(b, e - 1)

RECURSIVE SeqSum(_)
SeqSum(s) == IF s = <<>> THEN 0 ELSE Head(s) + SeqSum(Tail(s))

RECURSIVE SeqSumSq(_)
SeqSumSq(s) == IF s = <<>> THEN 0 ELSE Head(s) * Head(s) + SeqSumSq(Tail(s))

\* All sequences over S of length 0 .. n.
SeqsUpTo(S, n) == UNION {[1..k -> S] : k \in 0..n}


RatSub(a, b) == IF IsFinite(a) /\ IsFinite(b)
                THEN Frac(a[1] * b[2] - b[1] * a[2], a[2] * b[2]) ELSE NaN

RatMul(a, b) == IF IsFinite(a) /\ IsFinite(b)
                THEN Frac(a[1] * b[1], a[2] * b[2]) ELSE NaN

\* The integer nearest to n / d (d > 0), a tie going to the even one, as
\* Python's format() rounds.
RoundHalfEven(n, d) ==
    LET q == (2 * n + d) \div (2 * d)
    IN  IF (2 * n + d) % (2 * d) = 0 /\ q % 2 = 1 THEN q - 1 ELSE q

-----------------------------------------------------------------------------
(* StrategyBacktester.calculate_metrics *)

\* Trading days per year.
TradingDays == 252

RetVals == (-MaxRet)..MaxRet

\* 1 + r for the daily return r / MaxRet.
OnePlus(r) == Frac(MaxRet + r, MaxRet)

\* (1 + returns).prod()
RECURSIVE Prod(_)
Prod(s) == IF s = <<>> THEN <<1, 1>> ELSE RatMul(OnePlus(Head(s)), Prod(Tail(s)))

\* cumulative = (1 + returns).prod() - 1
Cumulative(s) == RatSub(Prod(s), <<1, 1>>)

\* ann_return = (1 + cumulative) ** (1 / n_years) - 1 with n_years = len / 252,
\* kept as base ** exp - 1.  Defined for len > 0 only.
AnnReturn(s) == [base |-> Prod(s), exp |-> <<TradingDays, Len(s)>>]

\* The sign of base ** exp - 1 for exp > 0 and base >= 0.
PowSign(p) == IF RatLT(<<1, 1>>, p.base) THEN 1
              ELSE IF RatEQ(p.base, <<1, 1>>) THEN 0 ELSE -1

\* returns.std() squared: pandas' sample variance (ddof = 1), NaN for fewer
\* than two observations.
SampleVar(s) ==
    LET n == Len(s)
    IN  IF n < 2 THEN NaN
        ELSE Frac(n * SeqSumSq(s) - SeqSum(s) * SeqSum(s),
                  n * (n - 1) * MaxRet * MaxRet)

\* (returns.std() * sqrt(252)) squared
AnnVolSq(s) == RatMul(SampleVar(s), <<TradingDays, 1>>)

\* returns[returns < 0]
IsNegative(r) == r < 0
DownsideReturns(s) == SelectSeq(s, IsNegative)

\* The literal 0 of the else branch, and the quotient p / sqrt(vsq) as numpy
\* float64 computes it (x / 0 is inf or NaN, never an exception).
LiteralZero == [kind |-> "zero", num |-> AnnReturn(<<>>), den_sq |-> Zero]
Quotient(p, vsq) ==
    IF IsNaN(vsq) THEN [kind |-> "nan", num |-> p, den_sq |-> vsq]
    ELSE IF vsq[1] = 0
         THEN [kind |-> IF PowSign(p) = 0 THEN "nan" ELSE "inf",
               num |-> p, den_sq |-> vsq]
    ELSE [kind |-> "ratio", num |-> p, den_sq |-> vsq]

\* x / vol if vol > 0 else 0
GuardedRatioGE(p, vsq) ==
    IF IsFinite(vsq) /\ vsq[1] >= 0 THEN Quotient(p, vsq) ELSE LiteralZero
GuardedRatio(p, vsq) == IF RatGT0(vsq) THEN Quotient(p, vsq) ELSE LiteralZero

\* sharpe = ann_return / ann_vol if ann_vol > 0 else 0
Sharpe(s) == GuardedRatio(AnnReturn(s), AnnVolSq(s))

\* sortino = ann_return / downside_vol if downside_vol > 0 else 0
Sortino(s) == GuardedRatio(AnnReturn(s), AnnVolSq(DownsideReturns(s)))

\* cumulative_returns = (1 + returns).cumprod()
RECURSIVE CumProd(_, _)
CumProd(s, acc) ==
    IF s = <<>> THEN <<>>
    ELSE LET w == RatMul(acc, OnePlus(Head(s)))
         IN  <<w>> \o CumProd(Tail(s), w)

\* running_max = cumulative_returns.expanding().max()
RECURSIVE ExpandingMaxFrom(_, _)
ExpandingMaxFrom(w, cur) ==
    IF w = <<>> THEN <<>>
    ELSE LET m == IF RatLT(cur, Head(w)) THEN Head(w) ELSE cur
         IN  <<m>> \o ExpandingMaxFrom(Tail(w), m)
GlobalMax(w) ==
    IF w = <<>> THEN <<>> ELSE
    LET top == CHOOSE x \in {w[i] : i \in DOMAIN w} :
                   \A i \in DOMAIN w : RatLE(w[i], x)
    IN  [i \in DOMAIN w |-> top]
ExpandingMax(w) == IF w = <<>> THEN <<>> ELSE ExpandingMaxFrom(w, Head(w))

\* drawdown = (cumulative_returns - running_max) / running_max
Drawdown(w, m) == [t \in DOMAIN w |-> RatDiv(RatSub(w[t], m[t]), m[t])]

\* Series.min(): NaN entries are skipped; NaN when nothing is left.
RECURSIVE SeriesMin(_)
SeriesMin(d) ==
    IF d = <<>> THEN NaN
    ELSE LET rest == SeriesMin(Tail(d))
         IN  IF IsNaN(Head(d)) THEN rest
             ELSE IF IsNaN(rest) \/ RatLE(Head(d), rest) THEN Head(d)
             ELSE rest

MaxDrawdown(s) ==
    LET w == CumProd(s, <<1, 1>>)
    IN  SeriesMin(Drawdown(w, ExpandingMax(w)))

\* f"{x*100:.1f}%": the number of tenths of a percent, over 10.
FormatPct(x) == IF IsFinite(x) THEN <<RoundHalfEven(x[1] * 1000, x[2]), 10>> ELSE x

\* f"{x:.2f}" of a Sharpe or Sortino value: the literal 0 prints "0.00".
FormatRatio(q) == CASE q.kind = "zero" -> "0.00"
                    [] q.kind = "nan" -> "nan"
                    [] q.kind = "inf" -> IF PowSign(q.num) > 0 THEN "inf" ELSE "-inf"
                    [] OTHER -> IF PowSign(q.num) = 0 THEN "0.00" ELSE "#.##"

NoMetrics == [cumulative |-> NaN, ann_return |-> AnnReturn(<<>>),
              ann_vol_sq |-> NaN, sharpe |-> LiteralZero,
              sortino |-> LiteralZero, max_drawdown |-> NaN,
              TotalReturn |-> NaN, SharpeRatio |-> "", SortinoRatio |-> "",
              MaxDrawdownPct |-> NaN, NumObservations |-> -1]

\* The locals of calculate_metrics and the entries of the dict it returns.
Metrics(s) ==
    [cumulative |-> Cumulative(s), ann_return |-> AnnReturn(s),
     ann_vol_sq |-> AnnVolSq(s), sharpe |-> Sharpe(s), sortino |-> Sortino(s),
     max_drawdown |-> MaxDrawdown(s),
     TotalReturn |-> FormatPct(Cumulative(s)),
     SharpeRatio |-> FormatRatio(Sharpe(s)),
     SortinoRatio |-> FormatRatio(Sortino(s)),
     MaxDrawdownPct |-> FormatPct(MaxDrawdown(s)),
     NumObservations |-> Len(s)]

\* len(returns) = 0 makes n_years 0.0 and 1 / n_years raise.
MetricsErrorNever(s) == "none"
MetricsError(s) == IF Len(s) = 0 THEN "ZeroDivisionError" ELSE "none"

-----------------------------------------------------------------------------
(* Values of the variables an operation does not use *)

NoScaler == [fitted |-> FALSE, mean |-> NaN, var |-> NaN, scale_sq |-> NaN]
NoModel == [assigned |-> FALSE, trained |-> FALSE, n_components |-> 0,
            fit_on |-> <<>>, seed |-> 0]
New == [op |-> "new", error |-> "none", n_obs |-> 0]

IdleDetector == /\ n_regimes = 0
                /\ fit_succeeded = FALSE
                /\ scaler = NoScaler
                /\ model = NoModel
                /\ vix_changes = <<>>
                /\ stats = <<>>
IdleBacktest == /\ returns = <<>>
                /\ regime_perf = <<>>
                /\ rules = <<>>
                /\ lag_days = 0
                /\ strategy_returns = <<>>
IdleMetrics == /\ ret_series = <<>>
               /\ metrics = NoMetrics

-----------------------------------------------------------------------------
(* calculate_metrics applied to one return series *)

InitMetrics == /\ IdleDetector
               /\ IdleBacktest
               /\ states = <<>>
               /\ ret_series \in SeqsUpTo(RetVals, MaxLen)
               /\ metrics = NoMetrics
               /\ outcome = New

CalculateMetrics ==
    /\ outcome.op = "new"
    /\ outcome' = [op |-> "calculate_metrics", error |-> MetricsError(ret_series),
                   n_obs |-> Len(ret_series)]
    /\ metrics' = IF MetricsError(ret_series) = "none"
                  THEN Metrics(ret_series) ELSE metrics
    /\ UNCHANGED <<ret_series, states>>
    /\ UNCHANGED detectorVars
    /\ UNCHANGED backtestVars

NextMetrics == CalculateMetrics

SpecMetrics == InitMetrics /\ [][NextMetrics]_vars

Returned == outcome.op = "calculate_metrics" /\ outcome.error = "none"

\* C3 as stated: calculate_metrics on a series with zero observations fails
\* with an EmptySeriesError.
C3_EmptySeriesError ==
    (outcome.op = "calculate_metrics" /\ Len(ret_series) = 0)
        => outcome.error = "EmptySeriesError"

\* C3 as amended: calculate_metrics on a series with zero observations
\* returns no metrics; it fails with the ZeroDivisionError of 1 / n_years.
C3_EmptyFailsZeroDivision ==
    (outcome.op = "calculate_metrics" /\ Len(ret_series) = 0)
        => (outcome.error = "ZeroDivisionError" /\ metrics = NoMetrics)

C3_Witness == outcome.op = "calculate_metrics" /\ Len(ret_series) = 0

AllEqual(s) == \A i, j \in DOMAIN s : s[i] = s[j]
NegativeDays(s) == {i \in DOMAIN s : s[i] < 0}

RECURSIVE WealthNum(_, _)
WealthNum(s, t) == IF t = 0 THEN 1 ELSE (MaxRet + s[t]) * WealthNum(s, t - 1)
Wealth(s, t) == Frac(WealthNum(s, t), IntPow(MaxRet, t))
IsPeak(s, t, p) == /\ \E u \in 1..t : RatEQ(p, Wealth(s, u))
                   /\ \A u \in 1..t : RatLE(Wealth(s, u), p)
\* wealth / running peak - 1 on day t
DrawdownAt(s, t) ==
    LET p == CHOOSE u \in 1..t : IsPeak(s, t, Wealth(s, u))
    IN  RatSub(RatDiv(Wealth(s, t), Wealth(s, p)), <<1, 1>>)

\* C9: for a non-empty series with every daily return above -100%, the max
\* drawdown is the minimum over days of wealth / running peak - 1, the peak
\* taken over the days up to and including that day; it is <= 0; and the
\* cumulative return is the product of (1 + r) minus 1.
C9_MaxDrawdown ==
    (Returned /\ \A i \in DOMAIN ret_series : ret_series[i] > -MaxRet) =>
        /\ \E t \in DOMAIN ret_series :
               RatEQ(metrics.max_drawdown, DrawdownAt(ret_series, t))
        /\ \A t \in DOMAIN ret_series :
               RatLE(metrics.max_drawdown, DrawdownAt(ret_series, t))
        /\ RatLE(metrics.max_drawdown, Zero)
        /\ RatEQ(metrics.cumulative,
                 RatSub(Wealth(ret_series, Len(ret_series)), <<1, 1>>))

C9_Witness ==
    /\ Returned
    /\ Len(ret_series) >= 3
    /\ \A i \in DOMAIN ret_series : ret_series[i] > -MaxRet
    /\ ret_series[1] > 0
    /\ ret_series[2] < 0
    /\ ret_series[3] > 0
    /\ RatLT(metrics.max_drawdown, Zero)
    /\ RatLT(Zero, metrics.cumulative)

-----------------------------------------------------------------------------
(* RegimeDetector.get_regime_stats *)

\* The numbers of regimes the program builds detectors with
\* (compare_models' n_states_list; 3 is the constructor's default).
NStatesList == {2, 3, 4}

\* The VIX changes of the observation series: no change, or a change of
\* MaxVix.
VixVals == {0, MaxVix}
Labels(K) == 0..(K - 1)

\* The observations of the days labelled s, in day order.
RECURSIVE GroupValues(_, _, _)
GroupValues(st, vx, s) ==
    IF st = <<>> THEN <<>>
    ELSE (IF Head(st) = s THEN <<Head(vx)>> ELSE <<>>)
             \o GroupValues(Tail(st), Tail(vx), s)

\* df.groupby('state')['vix_change'].agg(['mean', 'std', 'count'])
GroupIndex(st) == {st[i] : i \in DOMAIN st}
GroupMean(v) == <<SeqSum(v), Len(v)>>
GroupStdSq(v) == IF Len(v) < 2 THEN NaN
                 ELSE <<Len(v) * SeqSumSq(v) - SeqSum(v) * SeqSum(v),
                        Len(v) * (Len(v) - 1)>>

Orders(idx) == {p \in [1..Cardinality(idx) -> idx] :
                    \A i, j \in DOMAIN p : i # j => p[i] # p[j]}

\* stats.sort_values('mean'): the index in an order of non-decreasing mean.
\* The sort is not a stable one, so states of equal mean come in any order.
OrdersByLabel(st, vx) ==
    {p \in Orders(GroupIndex(st)) : \A i, j \in DOMAIN p : i < j => p[i] < p[j]}
SortedOrders(st, vx) ==
    LET mean == [s \in GroupIndex(st) |-> GroupMean(GroupValues(st, vx, s))]
    IN  {p \in Orders(GroupIndex(st)) :
            \A i, j \in DOMAIN p : i < j => RatLE(mean[p[i]], mean[p[j]])}

\* Building state_names reads stats.index[0], [1] (and [2] when
\* n_regimes == 3): an IndexError when the statistics have fewer rows.
StateNamesError(K, order) ==
    IF (K = 3 /\ Len(order) < 3) \/ (K # 3 /\ Len(order) < 2)
    THEN "IndexError" ELSE "none"

\* stats.index.map(state_names) for the row at position i of the sorted
\* statistics: a state that is no key of state_names gets NaN.
RegimeName(K, i) ==
    IF K = 3
    THEN CASE i = 1 -> "Low Vol"
           [] i = 2 -> "Medium Vol"
           [] i = 3 -> "High Vol"
           [] OTHER -> "NaN"
    ELSE CASE i = 1 -> "Low Vol"
           [] i = 2 -> "High Vol"
           [] OTHER -> "NaN"

\* The returned table, one row per observed state, in sorted order.
RegimeStats(K, st, vx, order) ==
    [i \in DOMAIN order |->
        [state |-> order[i],
         mean |-> GroupMean(GroupValues(st, vx, order[i])),
         std_sq |-> GroupStdSq(GroupValues(st, vx, order[i])),
         count |-> Len(GroupValues(st, vx, order[i])),
         regime_name |-> RegimeName(K, i)]]

GetRegimeStats ==
    /\ n_regimes \in NStatesList
    /\ outcome.op \in {"new", "predict", "get_regime_stats"}
    /\ outcome.error = "none"
    /\ Len(states) = Len(vix_changes)
    /\ \E order \in SortedOrders(states, vix_changes) :
           /\ outcome' = [op |-> "get_regime_stats",
                          error |-> StateNamesError(n_regimes, order),
                          n_obs |-> Len(vix_changes)]
           /\ stats' = IF StateNamesError(n_regimes, order) = "none"
                       THEN RegimeStats(n_regimes, states, vix_changes, order)
                       ELSE stats
    /\ UNCHANGED <<n_regimes, scaler, model, vix_changes, states, fit_succeeded>>
    /\ UNCHANGED backtestVars
    /\ UNCHANGED metricsVars

\* get_regime_stats applied to one state sequence and observation series.
InitStats == /\ n_regimes \in NStatesList
             /\ scaler = NoScaler
             /\ model = NoModel
             /\ fit_succeeded = FALSE
             /\ \E n \in 0..MaxObs :
                    /\ states \in [1..n -> Labels(n_regimes)]
                    /\ vix_changes \in [1..n -> VixVals]
             /\ stats = <<>>
             /\ IdleBacktest
             /\ IdleMetrics
             /\ outcome = New

NextStats == GetRegimeStats

SpecStats == InitStats /\ [][NextStats]_vars

StatsReturned == outcome.op = "get_regime_stats" /\ outcome.error = "none"

\* The mean observation of the days labelled s, from the inputs.
DaysOf(s) == {i \in DOMAIN states : states[i] = s}
RECURSIVE SumOver(_)
SumOver(D) == IF D = {} THEN 0
              ELSE LET i == CHOOSE x \in D : TRUE
                   IN  vix_changes[i] + SumOver(D \ {i})
MeanOf(s) == <<SumOver(DaysOf(s)), Cardinality(DaysOf(s))>>
Observed == {states[i] : i \in DOMAIN states}
NameOfState(s) ==
    LET i == CHOOSE k \in DOMAIN stats : stats[k].state = s
    IN  stats[i].regime_name

\* C7: the name "Low Vol" goes to exactly one state, and that state has the
\* smallest mean observation of all observed states, whatever the raw
\* labels and the order of the observations.
C7_LowIsSmallestMean ==
    StatsReturned =>
        /\ \A i \in DOMAIN stats :
               stats[i].regime_name = "Low Vol" =>
                   \A s \in Observed : RatLE(MeanOf(stats[i].state), MeanOf(s))
        /\ Cardinality({i \in DOMAIN stats : stats[i].regime_name = "Low Vol"}) = 1
        /\ {stats[i].state : i \in DOMAIN stats} = Observed

C7_Witness ==
    /\ StatsReturned
    /\ n_regimes = 3
    /\ Observed = Labels(3)
    /\ RatLT(MeanOf(2), MeanOf(1))
    /\ RatLT(MeanOf(1), MeanOf(0))
    /\ NameOfState(2) = "Low Vol"

NameRank(name) == CASE name = "Low Vol" -> 1
                    [] name = "Medium Vol" -> 2
                    [] name = "High Vol" -> 3
                    [] OTHER -> 0

\* C8 as stated, for a sequence in which all K states occur: the call does
\* not fail, every state has a name, a state of higher mean is never named
\* below one of lower mean, and the highest of K = 2 or 3 states is "High".
C8_EveryStateNamedInOrder ==
    (outcome.op = "get_regime_stats" /\ Observed = Labels(n_regimes)) =>
        /\ outcome.error = "none"
        /\ \A i \in DOMAIN stats : stats[i].regime_name # "NaN"
        /\ \A i, j \in DOMAIN stats :
               RatLT(stats[i].mean, stats[j].mean) =>
                   NameRank(stats[i].regime_name) < NameRank(stats[j].regime_name)

-----------------------------------------------------------------------------
(* RegimeDetector: __init__, fit, predict, score_model *)

\* fit's default random_state.
DefaultSeed == 42

\* The series a detector is fitted to and queried with.
DetSeries == SeqsUpTo(VixVals, MaxSeries)

\* StandardScaler.fit on a non-empty series: mean_, var_ (the population
\* variance) and scale_ squared, a zero variance giving scale 1.
ScalerFit(X) ==
    LET n == Len(X)
        v == <<n * SeqSumSq(X) - SeqSum(X) * SeqSum(X), n * n>>
    IN  [fitted |-> TRUE, mean |-> <<SeqSum(X), n>>, var |-> v,
         scale_sq |-> IF v[1] = 0 THEN <<1, 1>> ELSE v]

\* What self.scaler.transform(X) leaves of the scaler: it only reads it.
ScalerAfterFitTransform(sc, X) == IF sc.fitted /\ X # <<>> THEN ScalerFit(X) ELSE sc
ScalerAfterTransform(sc, X) == sc

\* hmm.GaussianHMM(n_components=self.n_regimes, ...): assigned, untrained.
NewModel(K, seed) == [assigned |-> TRUE, trained |-> FALSE, n_components |-> K,
                      fit_on |-> <<>>, seed |-> seed]

\* self.model.fit(X_scaled) raises when it has fewer samples than states
\* (the k-means initialisation of the means cannot place K centres).
HmmFitFails(K, X) == Len(X) < K

\* The parameters EM learns are a function of the scaled training series,
\* the number of states and the seed; they are kept as those arguments.
TrainedModel(K, seed, X) == [assigned |-> TRUE, trained |-> TRUE,
                             n_components |-> K, fit_on |-> X, seed |-> seed]

\* fit, line by line: scaler.fit_transform (which resets the scaler and then
\* rejects an empty array), the assignment of a new GaussianHMM, its fit.
FitError(K, X) == IF X = <<>> \/ HmmFitFails(K, X) THEN "ValueError" ELSE "none"
FitScaler(sc, X) == IF X = <<>> THEN NoScaler ELSE ScalerFit(X)
FitModel(m, K, seed, X) ==
    IF X = <<>> THEN m
    ELSE IF HmmFitFails(K, X) THEN NewModel(K, seed)
    ELSE TrainedModel(K, seed, X)

Fit ==
    /\ n_regimes \in NStatesList
    /\ \E X \in DetSeries :
           /\ scaler' = FitScaler(scaler, X)
           /\ model' = FitModel(model, n_regimes, DefaultSeed, X)
           /\ outcome' = [op |-> "fit", error |-> FitError(n_regimes, X),
                          n_obs |-> Len(X)]
           /\ fit_succeeded' = (fit_succeeded \/ FitError(n_regimes, X) = "none")
           /\ vix_changes' = X
    /\ states' = <<>>
    /\ stats' = <<>>
    /\ UNCHANGED n_regimes
    /\ UNCHANGED backtestVars
    /\ UNCHANGED metricsVars

\* The errors a GaussianHMM that was assigned but whose fit raised can answer
\* a query with: which one depends on how far its fit got before it raised.
UntrainedErrors == {"NotFittedError", "AttributeError"}

\* predict and score_model up to the library call: scaler.transform raises
\* NotFittedError on an unfitted scaler and ValueError on an empty array;
\* then self.model is used without any check of its own.
QueryError(sc, m, X, lib) ==
    IF ~sc.fitted THEN "NotFittedError"
    ELSE IF X = <<>> THEN "ValueError"
    ELSE IF ~m.assigned THEN "AttributeError"
    ELSE IF ~m.trained THEN lib
    ELSE "none"

\* predict returns one label in [0, K) per observation; the decoded path is
\* left open.
Predict ==
    /\ n_regimes \in NStatesList
    /\ \E X \in DetSeries, lib \in UntrainedErrors :
           /\ outcome' = [op |-> "predict", n_obs |-> Len(X),
                          error |-> QueryError(scaler, model, X, lib)]
           /\ scaler' = ScalerAfterTransform(scaler, X)
           /\ vix_changes' = X
           /\ IF QueryError(scaler, model, X, lib) = "none"
              THEN states' \in [1..Len(X) -> Labels(n_regimes)]
              ELSE states' = <<>>
    /\ stats' = <<>>
    /\ UNCHANGED <<n_regimes, model, fit_succeeded>>
    /\ UNCHANGED backtestVars
    /\ UNCHANGED metricsVars

ScoreModel ==
    /\ n_regimes \in NStatesList
    /\ \E X \in DetSeries, lib \in UntrainedErrors :
           /\ outcome' = [op |-> "score_model", n_obs |-> Len(X),
                          error |-> QueryError(scaler, model, X, lib)]
           /\ scaler' = ScalerAfterTransform(scaler, X)
           /\ vix_changes' = X
    /\ states' = <<>>
    /\ stats' = <<>>
    /\ UNCHANGED <<n_regimes, model, fit_succeeded>>
    /\ UNCHANGED backtestVars
    /\ UNCHANGED metricsVars

\* RegimeDetector(n_regimes): no model, an unfitted scaler.
InitDetector == /\ n_regimes \in NStatesList
                /\ scaler = NoScaler
                /\ model = NoModel
                /\ fit_succeeded = FALSE
                /\ vix_changes = <<>>
                /\ states = <<>>
                /\ stats = <<>>
                /\ IdleBacktest
                /\ IdleMetrics
                /\ outcome = New

NextDetector == Fit \/ Predict \/ ScoreModel \/ GetRegimeStats

SpecDetector == InitDetector /\ [][NextDetector]_vars

IsQuery == outcome.op \in {"predict", "score_model"}

\* C6 as stated: predict and score_model on a detector on which fit has never
\* succeeded fail with a NotFitted error and return no states; on a detector
\* whose last fit succeeded they succeed (on a non-empty series).
C6_QueryOnlyAfterFit ==
    (IsQuery /\ outcome.n_obs > 0) =>
        /\ ~fit_succeeded => (outcome.error = "NotFittedError" /\ states = <<>>)
        /\ (scaler.fitted /\ model.trained) => outcome.error = "none"

\* C10 as stated: once the detector is fitted, no operation changes its
\* standardization parameters or its model parameters.
C10_ImmutableAfterFit ==
    [][(scaler.fitted /\ model.trained) =>
           (scaler' = scaler /\ model' = model)]_vars

\* C10 as amended: predict, score_model and get_regime_stats never change
\* the standardization parameters, the model or the number of regimes; only
\* fit replaces them.
C10_QueriesLeaveParameters ==
    [][outcome'.op \in {"predict", "score_model", "get_regime_stats"} =>
           (scaler' = scaler /\ model' = model /\ n_regimes' = n_regimes)]_vars

C10_Witness ==
    /\ outcome.op = "predict"
    /\ outcome.error = "none"
    /\ scaler.fitted
    /\ model.trained
    /\ RatGT0(scaler.var)
    /\ states # <<>>

-----------------------------------------------------------------------------
(* StrategyBacktester.backtest_strategy *)

\* The candidate instruments in their declared (column) order.
Instruments == <<"TLT", "GLD", "SPY">>
InstrumentSet == {Instruments[j] : j \in DOMAIN Instruments}

\* The detector's default number of regimes: the labels of a state sequence.
DefaultRegimes == 3

\* A rule map: some of the states, each mapped to an instrument.
RuleMaps == UNION {[S -> InstrumentSet] : S \in SUBSET Labels(DefaultRegimes)}

\* signals.shift(lag_days) on day i: the state of day i - lag_days, or
\* nothing (NaN) on the first lag_days days.  A one-element or empty tuple.
ShiftedSignalBack(st, lag, i) ==
    IF i + lag \in DOMAIN st THEN <<st[i + lag]>> ELSE <<>>
ShiftedSignal(st, lag, i) ==
    IF i - lag \in DOMAIN st THEN <<st[i - lag]>> ELSE <<>>

\* signals_lagged.map(allocation_rules) on one day: NaN for NaN and for a
\* state that is no key of the rules.
Allocation(rl, sig) ==
    IF sig # <<>> /\ sig[1] \in DOMAIN rl THEN <<rl[sig[1]]>> ELSE <<>>

\* The loop body: strategy_returns[idx] stays NaN without an allocation,
\* else it is the allocated instrument's return of that day (maybe NaN).
StrategyReturnAt(st, rt, rl, lag, i) ==
    LET alloc == Allocation(rl, ShiftedSignal(st, lag, i))
    IN  IF alloc = <<>> THEN NaN ELSE rt[i][alloc[1]]

\* strategy_returns.dropna(): the days with a value, in index order.
RECURSIVE FillNa(_, _)
FillNa(v, i) ==
    IF i > Len(v) THEN <<>>
    ELSE <<[day |-> i, ret |-> IF IsNaN(v[i]) THEN Zero ELSE v[i]]>>
             \o FillNa(v, i + 1)
RECURSIVE DropNa(_, _)
DropNa(v, i) ==
    IF i > Len(v) THEN <<>>
    ELSE (IF IsNaN(v[i]) THEN <<>> ELSE <<[day |-> i, ret |-> v[i]]>>)
             \o DropNa(v, i + 1)

StrategyReturns(st, rt, rl, lag) ==
    DropNa([i \in DOMAIN rt |-> StrategyReturnAt(st, rt, rl, lag, i)], 1)

\* A returns table of n days: the return of instrument j on day i is a value
\* of its own, so that a result shows which cell it was read from; the cells
\* in `missing` hold NaN.
CellValue(i, j) == <<Len(Instruments) * (i - 1) + j, 1>>
Cells(n) == (1..n) \X (DOMAIN Instruments)
TableOf(n, missing) ==
    [i \in 1..n |->
        [name \in InstrumentSet |->
            LET j == CHOOSE k \in DOMAIN Instruments : Instruments[k] = name
            IN  IF <<i, j>> \in missing THEN NaN ELSE CellValue(i, j)]]

\* StrategyBacktester(returns_data, states), then one call of
\* backtest_strategy(allocation_rules, lag_days).
InitBacktest ==
    /\ IdleDetector
    /\ IdleMetrics
    /\ \E n \in 0..MaxDays :
           /\ states \in [1..n -> Labels(DefaultRegimes)]
           /\ \E missing \in SUBSET Cells(n) :
                  /\ Cardinality(missing) <= MaxMissing
                  /\ returns = TableOf(n, missing)
    /\ regime_perf = <<>>
    /\ rules = <<>>
    /\ lag_days = 0
    /\ strategy_returns = <<>>
    /\ outcome = New

BacktestStrategy ==
    /\ outcome.op = "new"
    /\ \E rl \in RuleMaps, lag \in 0..MaxLag :
           /\ rules' = rl
           /\ lag_days' = lag
           /\ strategy_returns' = StrategyReturns(states, returns, rl, lag)
    /\ outcome' = [op |-> "backtest_strategy", error |-> "none",
                   n_obs |-> Len(returns)]
    /\ UNCHANGED <<returns, regime_perf, states>>
    /\ UNCHANGED detectorVars
    /\ UNCHANGED metricsVars

NextBacktest == BacktestStrategy

SpecBacktest == InitBacktest /\ [][NextBacktest]_vars

Backtested == outcome.op = "backtest_strategy"

\* C1: every day of the output is a day after the first lag_days days, its
\* return is that day's return of the instrument the rules give for the
\* state lag_days days earlier, and the output is in day order.
C1_LaggedSignal ==
    Backtested =>
        /\ \A k \in DOMAIN strategy_returns :
               LET d == strategy_returns[k].day
               IN  /\ d \in DOMAIN returns
                   /\ d > lag_days
                   /\ states[d - lag_days] \in DOMAIN rules
                   /\ strategy_returns[k].ret
                          = returns[d][rules[states[d - lag_days]]]
        /\ \A k, l \in DOMAIN strategy_returns :
               k < l => strategy_returns[k].day < strategy_returns[l].day

C1_Witness ==
    /\ Backtested
    /\ lag_days = 1
    /\ Len(states) = 3
    /\ states[1] # states[2]
    /\ states[2] # states[3]
    /\ DOMAIN rules = Labels(DefaultRegimes)
    /\ rules[states[1]] # rules[states[2]]
    /\ rules[states[2]] # rules[states[3]]
    /\ Len(strategy_returns) = 2
    /\ strategy_returns[1].day = 2
    /\ strategy_returns[1].ret = returns[2][rules[states[1]]]

\* The days that have a lagged state, a rule for it and a return of the
\* allocated instrument.
CoveredDays ==
    {d \in DOMAIN returns :
        /\ d > lag_days
        /\ states[d - lag_days] \in DOMAIN rules
        /\ ~IsNaN(returns[d][rules[states[d - lag_days]]])}

\* C2: the output holds exactly the days with a lagged state, a rule for it
\* and a return of the allocated instrument; no other day appears, neither
\* with a zero return nor otherwise.
C2_UncoveredDaysExcluded ==
    Backtested =>
        /\ Len(strategy_returns) = Cardinality(CoveredDays)
        /\ {strategy_returns[k].day : k \in DOMAIN strategy_returns} = CoveredDays
        /\ \A k \in DOMAIN strategy_returns : ~IsNaN(strategy_returns[k].ret)

C2_Witness ==
    /\ Backtested
    /\ lag_days = 0
    /\ Len(states) = 3
    /\ states[1] \notin DOMAIN rules
    /\ states[2] \in DOMAIN rules
    /\ IsNaN(returns[2][rules[states[2]]])
    /\ states[3] \in DOMAIN rules
    /\ Len(strategy_returns) = 1
    /\ strategy_returns[1].day = 3

-----------------------------------------------------------------------------
(* calculate_regime_performance, create_allocation_rules and the backtest   *)
(* of the rules they give, in the order run_full_backtest calls them        *)

RatAdd(a, b) == IF IsFinite(a) /\ IsFinite(b)
                THEN Frac(a[1] * b[2] + b[1] * a[2], a[2] * b[2]) ELSE NaN

\* regime_perf * 10000
BasisPoints == 10000

\* The returns of one instrument on the days labelled s, in day order.
RECURSIVE ColumnValues(_, _, _, _)
ColumnValues(st, rt, s, name) ==
    IF st = <<>> THEN <<>>
    ELSE (IF Head(st) = s THEN <<Head(rt)[name]>> ELSE <<>>)
             \o ColumnValues(Tail(st), Tail(rt), s, name)

\* GroupBy.mean(): the mean of the values that are not NaN, NaN without any.
RECURSIVE RatSum(_)
RatSum(v) == IF v = <<>> THEN Zero
             ELSE IF IsNaN(Head(v)) THEN RatSum(Tail(v))
             ELSE RatAdd(Head(v), RatSum(Tail(v)))
IsNotNaN(x) == ~IsNaN(x)
ColumnMean(v) == RatDiv(RatSum(v), <<Len(SelectSeq(v, IsNotNaN)), 1>>)

\* The table grouped after dropping the first day.
RegimePerfAfterFirst(st, rt) ==
    [s \in (IF st = <<>> THEN {} ELSE GroupIndex(Tail(st))) |->
        [name \in InstrumentSet |->
            RatMul(ColumnMean(ColumnValues(st, rt, s, name)), <<BasisPoints, 1>>)]]

\* df.groupby('state')[['TLT_ret', 'GLD_ret', 'SPY_ret']].mean() * 10000
RegimePerf(st, rt) ==
    [s \in GroupIndex(st) |->
        [name \in InstrumentSet |->
            RatMul(ColumnMean(ColumnValues(st, rt, s, name)), <<BasisPoints, 1>>)]]

\* Series.idxmax(): the position of the first maximum among the values that
\* are not NaN; 0 when every value is NaN.
RECURSIVE IdxMaxLastFrom(_, _, _)
IdxMaxLastFrom(row, j, best) ==
    IF j > Len(Instruments) THEN best
    ELSE IF IsNaN(row[Instruments[j]]) THEN IdxMaxLastFrom(row, j + 1, best)
    ELSE IF best = 0 \/ RatLE(row[Instruments[best]], row[Instruments[j]])
         THEN IdxMaxLastFrom(row, j + 1, j)
    ELSE IdxMaxLastFrom(row, j + 1, best)
RECURSIVE IdxMaxFrom(_, _, _)
IdxMaxFrom(row, j, best) ==
    IF j > Len(Instruments) THEN best
    ELSE IF IsNaN(row[Instruments[j]]) THEN IdxMaxFrom(row, j + 1, best)
    ELSE IF best = 0 \/ RatLT(row[Instruments[best]], row[Instruments[j]])
         THEN IdxMaxFrom(row, j + 1, j)
    ELSE IdxMaxFrom(row, j + 1, best)
IdxMaxLast(row) == IdxMaxLastFrom(row, 1, 0)
IdxMax(row) == IdxMaxFrom(row, 1, 0)

\* A row without any value has no idxmax label to strip '_ret' from.
AllocationRulesError(perf) ==
    IF \E s \in DOMAIN perf : IdxMax(perf[s]) = 0 THEN "ValueError" ELSE "none"

\* rules[state] = regime_perf.loc[state].idxmax().replace('_ret', '')
AllocationRules(perf) == [s \in DOMAIN perf |-> Instruments[IdxMax(perf[s])]]

\* A daily return of the table run_full_backtest works on: one step down or
\* one step up, in units of 1 / MaxRet.  The table has no missing value
\* (compute_returns drops the incomplete rows).
PerfVals == {<<-1, MaxRet>>, <<1, MaxRet>>}

\* backtest_strategy's default lag_days.
DefaultLag == 1

InitRules ==
    /\ IdleDetector
    /\ IdleMetrics
    /\ \E n \in 0..MaxDays :
           /\ states \in [1..n -> Labels(DefaultRegimes)]
           /\ returns \in [1..n -> [InstrumentSet -> PerfVals]]
    /\ regime_perf = <<>>
    /\ rules = <<>>
    /\ lag_days = 0
    /\ strategy_returns = <<>>
    /\ outcome = New

CalculateRegimePerformance ==
    /\ outcome.op = "new"
    /\ Len(states) = Len(returns)
    /\ regime_perf' = RegimePerf(states, returns)
    /\ outcome' = [op |-> "calculate_regime_performance", error |-> "none",
                   n_obs |-> Len(returns)]
    /\ UNCHANGED <<returns, rules, lag_days, strategy_returns, states>>
    /\ UNCHANGED detectorVars
    /\ UNCHANGED metricsVars

CreateAllocationRules ==
    /\ outcome.op = "calculate_regime_performance"
    /\ outcome' = [op |-> "create_allocation_rules",
                   error |-> AllocationRulesError(regime_perf),
                   n_obs |-> Len(returns)]
    /\ rules' = IF AllocationRulesError(regime_perf) = "none"
                THEN AllocationRules(regime_perf) ELSE rules
    /\ UNCHANGED <<returns, regime_perf, lag_days, strategy_returns, states>>
    /\ UNCHANGED detectorVars
    /\ UNCHANGED metricsVars

\* strategy_returns = self.backtest_strategy(rules)
BacktestRules ==
    /\ outcome.op = "create_allocation_rules"
    /\ outcome.error = "none"
    /\ lag_days' = DefaultLag
    /\ strategy_returns' = StrategyReturns(states, returns, rules, DefaultLag)
    /\ outcome' = [op |-> "backtest_strategy", error |-> "none",
                   n_obs |-> Len(returns)]
    /\ UNCHANGED <<returns, regime_perf, rules, states>>
    /\ UNCHANGED detectorVars
    /\ UNCHANGED metricsVars

NextRules == CalculateRegimePerformance \/ CreateAllocationRules \/ BacktestRules

SpecRules == InitRules /\ [][NextRules]_vars

RulesCreated == outcome.op = "create_allocation_rules" /\ outcome.error = "none"

\* The sum and the mean of one instrument's returns over the days labelled
\* s, from the inputs.
RECURSIVE ReturnSumOver(_, _)
ReturnSumOver(D, name) ==
    IF D = {} THEN Zero
    ELSE LET i == CHOOSE x \in D : TRUE
         IN  RatAdd(returns[i][name], ReturnSumOver(D \ {i}, name))
MeanReturn(s, name) ==
    RatDiv(ReturnSumOver(DaysOf(s), name), <<Cardinality(DaysOf(s)), 1>>)
Position(name) == CHOOSE j \in DOMAIN Instruments : Instruments[j] = name

\* C5: every regime that occurs gets an instrument whose mean return in the
\* regime is the largest, and no instrument declared before it (TLT, GLD,
\* SPY) has an equal mean.
C5_BestInstrumentFirstOnTie ==
    RulesCreated =>
        /\ DOMAIN rules = Observed
        /\ \A s \in DOMAIN rules :
               /\ rules[s] \in InstrumentSet
               /\ \A name \in InstrumentSet :
                      RatLE(MeanReturn(s, name), MeanReturn(s, rules[s]))
               /\ \A name \in InstrumentSet :
                      Position(name) < Position(rules[s]) =>
                          RatLT(MeanReturn(s, name), MeanReturn(s, rules[s]))

C5_Witness ==
    /\ RulesCreated
    /\ \E s \in DOMAIN rules :
           /\ Cardinality(DaysOf(s)) >= 2
           /\ rules[s] = "GLD"
           /\ RatEQ(MeanReturn(s, "GLD"), MeanReturn(s, "SPY"))
           /\ RatLT(MeanReturn(s, "TLT"), MeanReturn(s, "GLD"))

\* run_full_backtest has reached its step 3 (backtest_strategy(rules)).
PipelineBacktested == outcome.op = "backtest_strategy" /\ outcome.error = "none"

\* C11: on a complete returns table, create_allocation_rules never fails and
\* the rule map of run_full_backtest has exactly one entry, an instrument,
\* for every state that occurs on some day; the strategy's return series
\* then holds every day but the first lag_days ones, in order, each with
\* the return of the instrument ruled for the state lag_days earlier: n -
\* lag_days observations for n days (none for a table without days).
C11_RulesTotalOnlyLagLost ==
    /\ outcome.op = "create_allocation_rules" => outcome.error = "none"
    /\ (RulesCreated \/ PipelineBacktested) =>
           /\ DOMAIN rules = Observed
           /\ \A s \in Observed : rules[s] \in InstrumentSet
    /\ PipelineBacktested =>
           /\ Len(strategy_returns) =
                  (IF Len(states) >= lag_days THEN Len(states) - lag_days ELSE 0)
           /\ \A k \in DOMAIN strategy_returns :
                  /\ strategy_returns[k].day = k + lag_days
                  /\ strategy_returns[k].ret =
                         returns[k + lag_days][rules[states[k]]]

C11_Witness ==
    /\ PipelineBacktested
    /\ lag_days = DefaultLag
    /\ Len(states) = MaxDays
    /\ Cardinality(Observed) >= 2
    /\ Cardinality(DaysOf(states[1])) = 1
    /\ Len(strategy_returns) = MaxDays - DefaultLag

=============================================================================
